---- MODULE Spec2Model ----
(***************************************************************************)
(* Attendance system: the MQTT listener dispatch (MQTTService._on_message), *)
(* the manual verify-frame endpoint, the cooldown tracker (FaceService),    *)
(* the Excel sink (ExcelService) and the identity directory (OracleDB).     *)
(*                                                                          *)
(* Threads: the listener runs _on_message on the executor thread that runs  *)
(* loop_forever; verify_frame_via_api is an async def without awaits in its *)
(* loop, so it runs on the event-loop thread, one call at a time; the       *)
(* reload loop is a third thread.  Every step below is one access to shared *)
(* state; ExcelService.log holds ExcelService._lock for its whole body and  *)
(* is one step.                                                             *)
(*                                                                          *)
(* Units: the clock counts seconds; distances and the tolerance are written *)
(* in tenths (0.5 is 5), a confidence in percent.                           *)
(***************************************************************************)
EXTENDS Integers, Sequences, FiniteSets, TLC

\* ---------------------------------------------------------------- bounds
MaxEvents == 2        \* inbound messages and verify-frame requests together
MaxFaces == 2         \* faces in one frame
StartTime == 1000     \* time.time() at construction (positive)
TickSeconds == 15     \* granularity of the clock
MaxTicks == 2         \* clock steps
MaxCalls == 3         \* direct calls of ExcelService.log (SpecSink)
MaxPushes == 102      \* pushes onto the recent cache (SpecCache)
MaxAttempts == 3      \* connection attempts of the listener (SpecConn)

\* ------------------------------------------------------ program constants
CooldownSeconds == 30 \* FaceConfig.cooldown_seconds
Tolerance == 5        \* FaceConfig.tolerance (0.5)
RecentCap == 100      \* "Keep only last 100 in memory"
SecondsPerDay == 86400

None == "None"
EmpCodes == {"E1", "E2"}
\* rows of the employees table, in fetch order
DbRows == << [code |-> "E1", name |-> "Ann"], [code |-> "E2", name |-> "Bob"] >>
Dists == {5, 6}
\* a face is its distance to every enrolled encoding
Faces == [EmpCodes -> Dists]
FaceSeqs == UNION { [1..n -> Faces] : n \in 0..MaxFaces }
\* a payload: an empty body, an image (raw JPEG or base64), a JSON document
\* such as {"employee_code": "E1", "employee_name": "Ann", "present": true},
\* or other bytes; for an image, whether the matcher raises on it, and its
\* faces
PayloadKinds == {"empty", "image", "json", "garbage"}
Frames == [kind : PayloadKinds, matcherFails : BOOLEAN, faces : FaceSeqs]

VARIABLES
    now,            \* wall clock (time.time() / datetime.now())
    employees,      \* OracleDB.employees, in insertion order
    reloadIdx,      \* load_encodings: 0 idle, k the next fetched row to insert
    ws,             \* ExcelService.ws data rows (row 1, the header, left out)
    file,           \* data rows of the saved file
    cooldown,       \* FaceService._cooldown_tracker
    last_detection, \* MQTTService._last_detection
    recent,         \* MQTTService._recent_logs
    lpc, lmatches, lidx, lgate, lstamp, lerr,   \* _on_message: position and locals
    lpayload,       \* the kind of msg.payload while _on_message handles it
    published,      \* outcomes published for the message being handled
    lcount,         \* messages received by the listener
    mpc, mmatches, midx, mgate, mstamp, mresults, \* verify_frame_via_api
    response,       \* the response of the last verify-frame request
    mcount,         \* verify-frame requests received
    calls,          \* history: one entry per call of ExcelService.log
    pushes,         \* history: number of pushes onto the recent cache
    tpc,            \* MQTTService.start: position of the listener thread
    connected,      \* MQTTService._connected
    subscribed,     \* the broker holds the subscription to topic_frame
    callbacks,      \* history: the connection callbacks, in order
    attempts,       \* history: connection attempts made
    stopped,        \* stop() has been called
    app,            \* lifespan: "starting", "running" or "failed"
    app_db,         \* app.state.db
    vpc, vdir, vfaces, vout, \* one call of FaceService.verify (SpecVerify)
    lock,           \* ExcelService._lock: "free", or the call holding it
    wpc, wargs,     \* a thread in ExcelService.log: position, arguments
    wpartial,       \* the last row of the worksheet lacks some of its cells
    rpc,            \* a thread in ExcelService.get_all_records: position
    rseen,          \* history: log calls that had ended when the read began
    rresult,        \* the records the last read returned
    rpartial        \* history: a read has met a row lacking cells

vars == << now, employees, reloadIdx, ws, file, cooldown, last_detection, recent,
           lpc, lmatches, lidx, lgate, lstamp, lerr, lpayload, published, lcount,
           mpc, mmatches, midx, mgate, mstamp, mresults, response, mcount,
           calls, pushes, tpc, connected, subscribed, callbacks, attempts,
           stopped, app, app_db, vpc, vdir, vfaces, vout,
           lock, wpc, wargs, wpartial, rpc, rseen, rresult, rpartial >>

dbVars == << employees, reloadIdx >>
sinkVars == << ws, file, calls >>
cacheVars == << last_detection, recent, pushes >>
lVars == << lpc, lmatches, lidx, lgate, lstamp, lerr, lpayload, published, lcount >>
mVars == << mpc, mmatches, midx, mgate, mstamp, mresults, response, mcount >>
connVars == << tpc, connected, subscribed, callbacks, attempts, stopped >>
appVars == << app, app_db >>
probeVars == << vpc, vdir, vfaces, vout >>
lockVars == << lock, wpc, wargs, wpartial, rpc, rseen, rresult, rpartial >>
otherVars == << connVars, appVars, probeVars, lockVars >>

\* ------------------------------------------------------------ OracleDB
\* get_all_encodings: the codes, in dict order
get_all_encodings(emps) == [i \in 1..Len(emps) |-> emps[i].code]

get_employee_name(emps, code) ==
    IF \E i \in 1..Len(emps) : emps[i].code = code
    THEN emps[CHOOSE i \in 1..Len(emps) : emps[i].code = code].name
    ELSE "Unknown"

\* ---------------------------------------------------------- FaceService
\* decode_image: cv2.imdecode of the bytes, then of their base64 decoding;
\* anything else raises ValueError
Decodes(kind) == kind = "image"

\* mutant: the matcher called although nothing is enrolled
VerifyRaises_NoEarlyReturn(emps, frame) == frame.matcherFails

\* verify raises when face_recognition raises; it is not called when the
\* directory is empty (the early return of lines 81-83)
VerifyRaises(emps, frame) == Len(emps) > 0 /\ frame.matcherFails

\* np.argmin: the first index of the least distance
ArgMin(codes, face) ==
    CHOOSE i \in 1..Len(codes) :
        /\ \A j \in 1..Len(codes) : face[codes[i]] <= face[codes[j]]
        /\ \A j \in 1..(i - 1) : face[codes[j]] > face[codes[i]]

\* mutant: the boundary distance rejected
Accepts_Strict(best_dist) == best_dist < Tolerance

Accepts(best_dist) == best_dist <= Tolerance

Confidence(best_dist) == (10 - best_dist) * 10

RECURSIVE VerifyFaces(_, _, _)
VerifyFaces(emps, faces, k) ==
    IF k > Len(faces) THEN << >>
    ELSE LET codes == get_all_encodings(emps)
             best_idx == ArgMin(codes, faces[k])
             best_dist == faces[k][codes[best_idx]]
             rest == VerifyFaces(emps, faces, k + 1)
         IN  IF Accepts(best_dist)
             THEN << [employee_code |-> codes[best_idx],
                      employee_name |-> get_employee_name(emps, codes[best_idx]),
                      confidence |-> Confidence(best_dist)] >> \o rest
             ELSE rest

verify(emps, faces) ==
    IF Len(emps) = 0 THEN << >>
    ELSE IF Len(faces) = 0 THEN << >>
    ELSE VerifyFaces(emps, faces, 1)

is_on_cooldown(cd, code, t) ==
    LET last == IF code \in DOMAIN cd THEN cd[code] ELSE 0
    IN  last # 0 /\ (t - last) < CooldownSeconds

set_cooldown(cd, code, t) == (code :> t) @@ cd

\* --------------------------------------------------------- ExcelService
DateStr(t) == t \div SecondsPerDay
TimeStr(t) == t % SecondsPerDay

max_row(w) == Len(w) + 1

\* mutant: the row index taken for the sequence number
SrNo_RowIndex(w) == max_row(w) + 1

SrNo(w) == (max_row(w) + 1) - 1

\* the cells written by log, lines 73-85
WriteRow(w, code, name, status, t) ==
    Append(w, [sr_no |-> SrNo(w), employee_code |-> code, employee_name |-> name,
               date |-> DateStr(t), time |-> TimeStr(t), status |-> status])

\* a cell holding the empty string is saved as an empty cell, which reads
\* back as None
StoreCell(v) == IF v = "" THEN None ELSE v

StoredRow(row) ==
    [row EXCEPT !.employee_code = StoreCell(@), !.employee_name = StoreCell(@)]

\* what wb.save leaves in the file: the whole worksheet, or nothing new
Save(f, w, ok) == IF ok THEN [i \in 1..Len(w) |-> StoredRow(w[i])] ELSE f

\* mutant: a new workbook made although the file exists
InitWorkbook_Fresh(f) == << >>

\* _init_workbook on an existing file, lines 29-37: load_workbook, and the
\* worksheet is the saved sheet
InitWorkbook(f) == f

\* "if row[1]": None and the empty string are both skipped
RowKept(row) == row.employee_code \notin {"", None}

get_all_records(w) == SelectSeq(w, RowKept)

\* --------------------------------------------------------- MQTTService
\* mutant: the cache trimmed one entry early
RecentPush_TrimsEarly(logs, record) ==
    LET appended == Append(logs, record)
    IN  IF Len(appended) >= RecentCap THEN Tail(appended) ELSE appended

RecentPush(logs, record) ==
    LET appended == Append(logs, record)
    IN  IF Len(appended) > RecentCap THEN Tail(appended) ELSE appended

Record(match, stamp) ==
    [status |-> "verified", employee_code |-> match.employee_code,
     employee_name |-> match.employee_name, date |-> stamp[1], time |-> stamp[2],
     confidence |-> match.confidence]

NoStamp == << 0, 0 >>

Init ==
    /\ now = StartTime
    /\ employees = << >>
    /\ reloadIdx = 0
    /\ ws = << >>
    /\ file = << >>
    /\ cooldown = [c \in {} |-> 0]
    /\ last_detection = None
    /\ recent = << >>
    /\ lpc = "idle" /\ lmatches = << >> /\ lidx = 0 /\ lgate = 0 /\ lstamp = NoStamp
    /\ lerr = None
    /\ lpayload = None
    /\ published = << >>
    /\ lcount = 0
    /\ mpc = "idle" /\ mmatches = << >> /\ midx = 0 /\ mgate = 0 /\ mstamp = NoStamp
    /\ mresults = << >>
    /\ response = [kind |-> "none"]
    /\ mcount = 0
    /\ calls = << >>
    /\ pushes = 0
    /\ tpc = "new"
    /\ connected = FALSE
    /\ subscribed = FALSE
    /\ callbacks = << >>
    /\ attempts = 0
    /\ stopped = FALSE
    /\ app = "starting"
    /\ app_db = "unset"
    /\ vpc = "idle"
    /\ vdir = << >>
    /\ vfaces = << >>
    /\ vout = << >>
    /\ lock = "free"
    /\ wpc = "idle"
    /\ wargs = << >>
    /\ wpartial = FALSE
    /\ rpc = "idle"
    /\ rseen = 0
    /\ rresult = << >>
    /\ rpartial = FALSE

Tick ==
    /\ now < StartTime + MaxTicks * TickSeconds
    /\ now' = now + TickSeconds
    /\ UNCHANGED << otherVars, dbVars, sinkVars, cooldown, cacheVars, lVars, mVars >>

\* load_encodings, lines 32-41: fetchall, then self.employees = {}
LoadEncodings_Begin ==
    /\ reloadIdx = 0
    /\ employees' = << >>
    /\ reloadIdx' = 1
    /\ UNCHANGED << otherVars, now, sinkVars, cooldown, cacheVars, lVars, mVars >>

\* load_encodings, lines 42-48: one iteration of the loop over the rows
LoadEncodings_Insert ==
    /\ reloadIdx >= 1
    /\ employees' = Append(employees, DbRows[reloadIdx])
    /\ reloadIdx' = IF reloadIdx = Len(DbRows) THEN 0 ELSE reloadIdx + 1
    /\ UNCHANGED << otherVars, now, sinkVars, cooldown, cacheVars, lVars, mVars >>

\* ------------------------------------------------- MQTTService._on_message
\* The locals of a handler (matches, the loop index, the time of the gate
\* check, the stamp returned by log, the caught exception) are cleared when
\* they go out of scope.
ErrorOutcome(e) == [status |-> "error", message |-> e]
NoMatchOutcome == [status |-> "no_match"]

\* ExcelService.log, lines 68-91, as called by either path: the cells are
\* written into the worksheet, then wb.save writes the file or raises
Log(code, name, status, gate, path, ok) ==
    /\ ws' = WriteRow(ws, code, name, status, now)
    /\ file' = Save(file, ws', ok)
    /\ calls' = Append(calls, [code |-> code, name |-> name, status |-> status,
                               gate |-> gate, at |-> now, path |-> path, ok |-> ok,
                               sr |-> SrNo(ws)])

\* after one iteration of "for match in matches": the next one, or return
LLast == lidx = Len(lmatches)
LLoop ==
    /\ lpc' = IF LLast THEN "idle" ELSE "gate"
    /\ lidx' = IF LLast THEN 0 ELSE lidx + 1
    /\ lmatches' = IF LLast THEN << >> ELSE lmatches
    /\ lpayload' = IF LLast THEN None ELSE lpayload
    /\ lgate' = 0
    /\ lstamp' = NoStamp

\* an exception leaves the try block for the except clause of line 107
LRaise(e) ==
    /\ lpc' = "except"
    /\ lerr' = e
    /\ lidx' = 0
    /\ lmatches' = << >>
    /\ lgate' = 0
    /\ lstamp' = NoStamp

\* lines 69-76: decode_image, verify, and the no_match publish
OnMessage_Receive ==
    /\ lpc = "idle"
    /\ lcount + mcount < MaxEvents
    /\ \E frame \in Frames :
        /\ frame.kind # "empty"
        /\ IF ~Decodes(frame.kind)
           THEN /\ LRaise("decode")
                /\ lpayload' = frame.kind
                /\ published' = << >>
           ELSE IF VerifyRaises(employees, frame)
           THEN /\ LRaise("matcher")
                /\ lpayload' = frame.kind
                /\ published' = << >>
           ELSE LET matches == verify(employees, frame.faces)
                IN  IF Len(matches) = 0
                    THEN /\ published' = << NoMatchOutcome >>
                         /\ UNCHANGED << lpc, lmatches, lidx, lgate, lstamp, lerr,
                                         lpayload >>
                    ELSE /\ published' = << >>
                         /\ lmatches' = matches
                         /\ lidx' = 1
                         /\ lpc' = "gate"
                         /\ lpayload' = frame.kind
                         /\ UNCHANGED << lgate, lstamp, lerr >>
    /\ lcount' = lcount + 1
    /\ UNCHANGED << otherVars, now, dbVars, sinkVars, cooldown, cacheVars, mVars >>

\* mutant: a suppressed detection restarts the window
OnMessage_Gate_ExtendsWindow ==
    /\ lpc = "gate"
    /\ IF is_on_cooldown(cooldown, lmatches[lidx].employee_code, now)
       THEN /\ LLoop
            /\ cooldown' = set_cooldown(cooldown, lmatches[lidx].employee_code, now)
       ELSE /\ lpc' = "log"
            /\ lgate' = now
            /\ UNCHANGED << lidx, lmatches, lstamp, lpayload, cooldown >>
    /\ UNCHANGED << otherVars, now, dbVars, sinkVars, cacheVars, published, lcount,
                    lerr, mVars >>

\* lines 79-83: the cooldown check; on cooldown, log and continue
OnMessage_Gate ==
    /\ lpc = "gate"
    /\ IF is_on_cooldown(cooldown, lmatches[lidx].employee_code, now)
       THEN LLoop
       ELSE /\ lpc' = "log"
            /\ lgate' = now
            /\ UNCHANGED << lidx, lmatches, lstamp, lpayload >>
    /\ UNCHANGED << otherVars, now, dbVars, sinkVars, cooldown, cacheVars, published, lcount, lerr,
                    mVars >>

\* mutant: the stamp made up and the loop body continued after log raised
OnMessage_LogReturned_Anyway ==
    /\ lstamp' = << DateStr(now), TimeStr(now) >>
    /\ lpc' = "setcd"
    /\ UNCHANGED << cooldown, lmatches, lidx, lgate, lerr, lpayload >>

\* lines 85-86, log returns
OnMessage_LogReturned ==
    /\ lstamp' = << DateStr(now), TimeStr(now) >>
    /\ lpc' = "setcd"
    /\ UNCHANGED << cooldown, lmatches, lidx, lgate, lerr, lpayload >>

\* mutant: the cooldown recorded before the append is known to have succeeded
OnMessage_LogRaised_SetsCooldown ==
    /\ cooldown' = set_cooldown(cooldown, lmatches[lidx].employee_code, now)
    /\ lpc' = "except"
    /\ lerr' = "sink"
    /\ lidx' = 0
    /\ lmatches' = << >>
    /\ lgate' = 0
    /\ lstamp' = NoStamp
    /\ UNCHANGED lpayload

\* lines 85-86, log raises: the rest of the loop body is skipped
OnMessage_LogRaised ==
    /\ LRaise("sink")
    /\ UNCHANGED << cooldown, lpayload >>

\* lines 85-86
OnMessage_Log ==
    /\ lpc = "log"
    /\ \E ok \in BOOLEAN :
        /\ Log(lmatches[lidx].employee_code, lmatches[lidx].employee_name,
               "Present", lgate, "listener", ok)
        /\ IF ok THEN OnMessage_LogReturned ELSE OnMessage_LogRaised
    /\ UNCHANGED << otherVars, now, dbVars, cacheVars, published, lcount, mVars >>

\* line 87
OnMessage_SetCooldown ==
    /\ lpc = "setcd"
    /\ cooldown' = set_cooldown(cooldown, lmatches[lidx].employee_code, now)
    /\ lpc' = "cache"
    /\ UNCHANGED << otherVars, now, dbVars, sinkVars, cacheVars,
                    lmatches, lidx, lgate, lstamp, lerr, lpayload, published, lcount,
                    mVars >>

\* lines 89-105: the record, the cache push under MQTTService._lock, the
\* publish, and the end of the loop body
OnMessage_Cache ==
    /\ lpc = "cache"
    /\ last_detection' = lstamp
    /\ recent' = RecentPush(recent, Record(lmatches[lidx], lstamp))
    /\ pushes' = pushes + 1
    /\ published' = Append(published, Record(lmatches[lidx], lstamp))
    /\ LLoop
    /\ UNCHANGED << otherVars, now, dbVars, sinkVars, cooldown, lerr, lcount, mVars >>

\* mutant: the except clause logs the error and publishes nothing
OnMessage_Except_Silent ==
    /\ lpc = "except"
    /\ lpc' = "idle"
    /\ lerr' = None
    /\ lpayload' = None
    /\ UNCHANGED << otherVars, now, dbVars, sinkVars, cooldown, cacheVars, lmatches, lidx, lgate,
                    lstamp, published, lcount, mVars >>

\* lines 107-109: the except clause publishes the error; the handler returns
OnMessage_Except ==
    /\ lpc = "except"
    /\ published' = Append(published, ErrorOutcome(lerr))
    /\ lpc' = "idle"
    /\ lerr' = None
    /\ lpayload' = None
    /\ UNCHANGED << otherVars, now, dbVars, sinkVars, cooldown, cacheVars, lmatches, lidx, lgate,
                    lstamp, lcount, mVars >>

\* ------------------------------------------------- verify_frame_via_api
MLast == midx = Len(mmatches)

\* the end of an iteration with the results so far: the next iteration, or
\* the return of line 103
MLoop(results) ==
    /\ mpc' = IF MLast THEN "idle" ELSE "gate"
    /\ midx' = IF MLast THEN 0 ELSE midx + 1
    /\ mmatches' = IF MLast THEN << >> ELSE mmatches
    /\ mresults' = IF MLast THEN << >> ELSE results
    /\ response' = IF MLast
                   THEN [kind |-> "ok", total_faces_detected |-> Len(mmatches),
                         results |-> results]
                   ELSE response
    /\ mgate' = 0
    /\ mstamp' = NoStamp

\* lines 63-76: the body check, decode_image, verify, the no_match return
VerifyFrame_Receive ==
    /\ mpc = "idle"
    /\ lcount + mcount < MaxEvents
    /\ \E frame \in Frames :
        IF frame.kind = "empty"
        THEN /\ response' = [kind |-> "http400"]
             /\ UNCHANGED << mpc, mmatches, midx >>
        ELSE IF ~Decodes(frame.kind) \/ VerifyRaises(employees, frame)
        THEN /\ response' = [kind |-> "http500"]
             /\ UNCHANGED << mpc, mmatches, midx >>
        ELSE LET matches == verify(employees, frame.faces)
             IN  IF Len(matches) = 0
                 THEN /\ response' = [kind |-> "no_match"]
                      /\ UNCHANGED << mpc, mmatches, midx >>
                 ELSE /\ response' = [kind |-> "pending"]
                      /\ mmatches' = matches
                      /\ midx' = 1
                      /\ mpc' = "gate"
    /\ mcount' = mcount + 1
    /\ UNCHANGED << otherVars, now, dbVars, sinkVars, cooldown, cacheVars, lVars, mgate, mstamp,
                    mresults >>

\* lines 80-88
VerifyFrame_Gate ==
    /\ mpc = "gate"
    /\ IF is_on_cooldown(cooldown, mmatches[midx].employee_code, now)
       THEN MLoop(Append(mresults, [status |-> "cooldown",
                                    employee_code |-> mmatches[midx].employee_code]))
       ELSE /\ mpc' = "log"
            /\ mgate' = now
            /\ UNCHANGED << midx, mmatches, mresults, response, mstamp >>
    /\ UNCHANGED << otherVars, now, dbVars, sinkVars, cooldown, cacheVars, lVars, mcount >>

\* lines 90-91 and, when log raises, lines 105-106
VerifyFrame_Log ==
    /\ mpc = "log"
    /\ \E ok \in BOOLEAN :
        /\ Log(mmatches[midx].employee_code, mmatches[midx].employee_name,
               "Present", mgate, "manual", ok)
        /\ IF ok
           THEN /\ mstamp' = << DateStr(now), TimeStr(now) >>
                /\ mpc' = "setcd"
                /\ UNCHANGED << response, mmatches, midx, mgate, mresults >>
           ELSE /\ response' = [kind |-> "http500"]
                /\ mpc' = "idle"
                /\ midx' = 0
                /\ mmatches' = << >>
                /\ mresults' = << >>
                /\ mgate' = 0
                /\ mstamp' = NoStamp
    /\ UNCHANGED << otherVars, now, dbVars, cooldown, cacheVars, lVars, mcount >>

\* lines 92-103: set_cooldown, the result entry, and the end of the loop body
VerifyFrame_SetCooldown ==
    /\ mpc = "setcd"
    /\ cooldown' = set_cooldown(cooldown, mmatches[midx].employee_code, now)
    /\ MLoop(Append(mresults, Record(mmatches[midx], mstamp)))
    /\ UNCHANGED << otherVars, now, dbVars, sinkVars, cacheVars, lVars, mcount >>

Next ==
    \/ Tick
    \/ LoadEncodings_Begin
    \/ LoadEncodings_Insert
    \/ OnMessage_Receive
    \/ OnMessage_Gate
    \/ OnMessage_Log
    \/ OnMessage_SetCooldown
    \/ OnMessage_Cache
    \/ OnMessage_Except
    \/ VerifyFrame_Receive
    \/ VerifyFrame_Gate
    \/ VerifyFrame_Log
    \/ VerifyFrame_SetCooldown

Spec == Init /\ [][Next]_vars

\* ------------------------------------------ ExcelService called directly
SinkCodes == {"E1", ""}
SinkNames == {"Ann", "Unknown"}
\* status: both callers leave the default of line 65
Statuses == {"Present"}

\* one call log(employee_code, employee_name, status)
Sink_Log ==
    /\ Len(calls) < MaxCalls
    /\ \E code \in SinkCodes, name \in SinkNames, status \in Statuses, ok \in BOOLEAN :
        Log(code, name, status, now, "direct", ok)
    /\ UNCHANGED << otherVars, now, dbVars, cooldown, cacheVars, lVars, mVars >>

\* a process restart: a new ExcelService on the same file_path
\* (__init__, _init_workbook); the unsaved cells of the old worksheet are gone
Sink_Restart ==
    /\ ws' = InitWorkbook(file)
    /\ UNCHANGED << otherVars, now, dbVars, file, calls, cooldown, cacheVars, lVars,
                    mVars >>

NextSink ==
    \/ Sink_Log
    \/ Sink_Restart
    \/ Tick

SpecSink == Init /\ [][NextSink]_vars

\* ------------------------------------------------ the recent cache alone
\* lines 98-103 for one accepted event a second after the previous one
Cache_Push ==
    /\ pushes < MaxPushes
    /\ now' = now + 1
    /\ LET stamp == << DateStr(now'), TimeStr(now') >>
           match == [employee_code |-> "E1", employee_name |-> "Ann",
                     confidence |-> Confidence(Tolerance)]
       IN  /\ last_detection' = stamp
           /\ recent' = RecentPush(recent, Record(match, stamp))
    /\ pushes' = pushes + 1
    /\ UNCHANGED << otherVars, dbVars, sinkVars, cooldown, lVars, mVars >>

NextCache == Cache_Push

SpecCache == Init /\ [][NextCache]_vars

\* ------------------------------------------ FaceService.verify alone
\* distances below, at and above the tolerance
ProbeDists == {Tolerance - 1, Tolerance, Tolerance + 1}
ProbeFaces == [EmpCodes -> ProbeDists]
ProbeFaceSeqs == UNION { [1..n -> ProbeFaces] : n \in 0..MaxFaces }

\* a call verify(image): the faces of the image, and a directory of the
\* first k fetched rows
Verify_Call ==
    /\ vpc = "idle"
    /\ \E k \in 0..Len(DbRows), faces \in ProbeFaceSeqs :
        /\ vdir' = SubSeq(DbRows, 1, k)
        /\ vfaces' = faces
    /\ vpc' = "called"
    /\ UNCHANGED << vout, connVars, appVars, now, dbVars, sinkVars, lockVars, cooldown,
                    cacheVars, lVars, mVars >>

\* the call returns its matches
Verify_Return ==
    /\ vpc = "called"
    /\ vout' = verify(vdir, vfaces)
    /\ vpc' = "returned"
    /\ UNCHANGED << vdir, vfaces, connVars, appVars, now, dbVars, sinkVars, lockVars, cooldown,
                    cacheVars, lVars, mVars >>

NextVerify ==
    \/ Verify_Call
    \/ Verify_Return

SpecVerify == Init /\ [][NextVerify]_vars

\* ------------------------------------------ ExcelService._lock
\* One thread calls log and another get_all_records; each body runs under
\* "with self._lock", which releases the lock when the body returns and
\* when it raises.

\* log is called, line 61
Lock_LogCall ==
    /\ wpc = "idle"
    /\ Len(calls) < MaxCalls
    /\ \E code \in SinkCodes, name \in SinkNames : wargs' = << code, name >>
    /\ wpc' = "waiting"
    /\ UNCHANGED << lock, wpartial, rpc, rseen, rresult, rpartial, connVars, appVars,
                    probeVars, now, dbVars, sinkVars, cooldown, cacheVars, lVars, mVars >>

\* line 68
Lock_LogAcquire ==
    /\ wpc = "waiting"
    /\ lock = "free"
    /\ lock' = "log"
    /\ wpc' = "cells"
    /\ UNCHANGED << wargs, wpartial, rpc, rseen, rresult, rpartial, connVars, appVars,
                    probeVars, now, dbVars, sinkVars, cooldown, cacheVars, lVars, mVars >>

\* lines 69-85, the first cells of the new row are in the worksheet
Lock_LogFirstCells ==
    /\ wpc = "cells"
    /\ ws' = WriteRow(ws, wargs[1], wargs[2], "Present", now)
    /\ wpartial' = TRUE
    /\ wpc' = "lastcells"
    /\ UNCHANGED << lock, wargs, rpc, rseen, rresult, rpartial, connVars, appVars,
                    probeVars, now, dbVars, file, calls, cooldown, cacheVars, lVars,
                    mVars >>

\* lines 81-85, the last cell of the row is written
Lock_LogLastCells ==
    /\ wpc = "lastcells"
    /\ wpartial' = FALSE
    /\ wpc' = "save"
    /\ UNCHANGED << lock, wargs, rpc, rseen, rresult, rpartial, connVars, appVars,
                    probeVars, now, dbVars, sinkVars, cooldown, cacheVars, lVars, mVars >>

\* lines 87-91: wb.save, then log returns, or save raises; the with block
\* releases the lock either way
Lock_LogSave ==
    /\ wpc = "save"
    /\ \E ok \in BOOLEAN :
        /\ file' = Save(file, ws, ok)
        /\ calls' = Append(calls, [code |-> wargs[1], name |-> wargs[2],
                                   status |-> "Present", gate |-> now, at |-> now,
                                   path |-> "direct", ok |-> ok,
                                   sr |-> ws[Len(ws)].sr_no])
    /\ lock' = "free"
    /\ wpc' = "idle"
    /\ wargs' = << >>
    /\ UNCHANGED << wpartial, rpc, rseen, rresult, rpartial, connVars, appVars,
                    probeVars, now, dbVars, ws, cooldown, cacheVars, lVars, mVars >>

\* get_all_records is called, line 93
Lock_ReadCall ==
    /\ rpc = "idle"
    /\ rseen' = Len(calls)
    /\ rpc' = "waiting"
    /\ UNCHANGED << lock, wpc, wargs, wpartial, rresult, rpartial, connVars, appVars,
                    probeVars, now, dbVars, sinkVars, cooldown, cacheVars, lVars, mVars >>

\* line 95
Lock_ReadAcquire ==
    /\ rpc = "waiting"
    /\ lock = "free"
    /\ lock' = "read"
    /\ rpc' = "reading"
    /\ UNCHANGED << wpc, wargs, wpartial, rseen, rresult, rpartial, connVars, appVars,
                    probeVars, now, dbVars, sinkVars, cooldown, cacheVars, lVars, mVars >>

\* lines 96-109: the rows are read and returned; the lock is released
Lock_ReadReturn ==
    /\ rpc = "reading"
    /\ rresult' = get_all_records(ws)
    /\ rpartial' = (rpartial \/ wpartial)
    /\ lock' = "free"
    /\ rpc' = "idle"
    /\ UNCHANGED << wpc, wargs, wpartial, rseen, connVars, appVars,
                    probeVars, now, dbVars, sinkVars, cooldown, cacheVars, lVars, mVars >>

NextLock ==
    \/ Lock_LogCall
    \/ Lock_LogAcquire
    \/ Lock_LogFirstCells
    \/ Lock_LogLastCells
    \/ Lock_LogSave
    \/ Lock_ReadCall
    \/ Lock_ReadAcquire
    \/ Lock_ReadReturn

SpecLock == Init /\ [][NextLock]_vars

\* ------------------------------------- the connection of the listener
\* CONNACK return codes: 0 accepted, 1..5 refused
ConnackCodes == 0..5

\* lifespan, line 42, binds the positional arguments of the call to the
\* required parameters of MQTTService.__init__; a missing one is a TypeError
MQTTServiceParams == << "mqtt_config", "db", "face_config", "excel_config" >>
MQTTServiceArgs == << "settings.mqtt", "db", "settings.excel" >>
Constructs(args, params) == Len(args) = Len(params)

\* lifespan, lines 32-45: app.state.db is the directory object or None;
\* then the listener is constructed and started, or startup fails
Lifespan_Startup ==
    /\ app = "starting"
    /\ \E dbOk \in BOOLEAN : app_db' = IF dbOk THEN "db" ELSE None
    /\ app' = IF Constructs(MQTTServiceArgs, MQTTServiceParams)
              THEN "running" ELSE "failed"
    /\ UNCHANGED << connVars, probeVars, now, dbVars, sinkVars, lockVars, cooldown, cacheVars,
                    lVars, mVars >>

\* health_check: the snapshot
health_check(db, emps, conn, last) ==
    [status |-> "ok", mqtt_connected |-> conn,
     employees_loaded |-> IF db # None THEN Len(emps) ELSE 0,
     last_detection |-> last]

\* start, lines 133-139: client.connect returns with the CONNECT packet
\* sent, or raises; the except clause logs and start returns
Conn_Start ==
    /\ tpc = "new"
    /\ attempts' = attempts + 1
    /\ \E reached \in BOOLEAN : tpc' = IF reached THEN "connecting" ELSE "ended"
    /\ UNCHANGED << connected, subscribed, callbacks, stopped, appVars, probeVars,
                    now, dbVars, sinkVars, lockVars, cooldown, cacheVars, lVars, mVars >>

\* mutant: the flag set whatever the return code
Conn_OnConnect_IgnoresRc ==
    /\ tpc = "connecting"
    /\ \E rc \in ConnackCodes :
        /\ callbacks' = Append(callbacks, [kind |-> "connect", rc |-> rc])
        /\ connected' = TRUE
        /\ subscribed' = (rc = 0)
        /\ tpc' = IF rc = 0 THEN "connected" ELSE "refused"
    /\ UNCHANGED << attempts, stopped, appVars, probeVars, now, dbVars, sinkVars, lockVars,
                    cooldown, cacheVars, lVars, mVars >>

\* mutant: the flag set without the subscription
Conn_OnConnect_NoSubscribe ==
    /\ tpc = "connecting"
    /\ \E rc \in ConnackCodes :
        /\ callbacks' = Append(callbacks, [kind |-> "connect", rc |-> rc])
        /\ IF rc = 0
           THEN /\ connected' = TRUE
                /\ tpc' = "connected"
                /\ UNCHANGED subscribed
           ELSE /\ tpc' = "refused"
                /\ UNCHANGED << connected, subscribed >>
    /\ UNCHANGED << attempts, stopped, appVars, probeVars, now, dbVars, sinkVars, lockVars,
                    cooldown, cacheVars, lVars, mVars >>

\* _on_connect, lines 53-62, called by loop_forever with the CONNACK
Conn_OnConnect ==
    /\ tpc = "connecting"
    /\ \E rc \in ConnackCodes :
        /\ callbacks' = Append(callbacks, [kind |-> "connect", rc |-> rc])
        /\ IF rc = 0
           THEN /\ connected' = TRUE
                /\ subscribed' = TRUE
                /\ tpc' = "connected"
           ELSE /\ tpc' = "refused"
                /\ UNCHANGED << connected, subscribed >>
    /\ UNCHANGED << attempts, stopped, appVars, probeVars, now, dbVars, sinkVars, lockVars,
                    cooldown, cacheVars, lVars, mVars >>

\* _on_disconnect, lines 64-66, called by loop_forever when the connection
\* is lost, when the broker closes it after a refusal, and when the
\* DISCONNECT packet of stop() has been sent; the subscription of the
\* session ends with it.  After stop() loop_forever returns.
Conn_OnDisconnect ==
    /\ tpc \in {"connecting", "connected", "refused"}
    /\ callbacks' = Append(callbacks, [kind |-> "disconnect", rc |-> 0])
    /\ connected' = FALSE
    /\ subscribed' = FALSE
    /\ tpc' = IF stopped THEN "ended" ELSE "waiting"
    /\ UNCHANGED << attempts, stopped, appVars, probeVars, now, dbVars, sinkVars, lockVars,
                    cooldown, cacheVars, lVars, mVars >>

\* loop_forever (line 137) after a disconnect: it waits and reconnects; a
\* reconnect that fails is retried
Conn_Reconnect ==
    /\ tpc = "waiting"
    /\ ~stopped
    /\ attempts < MaxAttempts
    /\ attempts' = attempts + 1
    /\ \E reached \in BOOLEAN : tpc' = IF reached THEN "connecting" ELSE "waiting"
    /\ UNCHANGED << connected, subscribed, callbacks, stopped, appVars, probeVars,
                    now, dbVars, sinkVars, lockVars, cooldown, cacheVars, lVars, mVars >>

\* stop, lines 141-143: client.disconnect(); a loop that is waiting to
\* reconnect returns at once
Conn_Stop ==
    /\ ~stopped
    /\ tpc # "new"
    /\ stopped' = TRUE
    /\ tpc' = IF tpc = "waiting" THEN "ended" ELSE tpc
    /\ UNCHANGED << connected, subscribed, callbacks, attempts, appVars, probeVars,
                    now, dbVars, sinkVars, lockVars, cooldown, cacheVars, lVars, mVars >>

NextConn ==
    \/ Lifespan_Startup
    \/ Conn_Start
    \/ Conn_OnConnect
    \/ Conn_OnDisconnect
    \/ Conn_Reconnect
    \/ Conn_Stop

SpecConn == Init /\ [][NextConn]_vars

\* ---------------------------------------------------------------- claims
TypeOK ==
    /\ lpc \in {"idle", "gate", "log", "setcd", "cache", "except"}
    /\ mpc \in {"idle", "gate", "log", "setcd"}
    /\ Len(ws) <= Len(calls) + (IF wpc \in {"lastcells", "save"} THEN 1 ELSE 0)

Idx(seq) == 1..Len(seq)

\* C1: in every reachable state, whatever the interleaving of the log calls
\* of the listener and of the verify-frame endpoint, the Sr. No. of the data
\* rows of the worksheet and of the saved file are 1, 2, ..., n in row order.
C1_SequenceNumbers ==
    /\ \A i \in Idx(ws) : ws[i].sr_no = i
    /\ \A i \in Idx(file) : file[i].sr_no = i

\* rows of both paths are in the saved file
C1_Witness ==
    /\ Len(file) >= 2
    /\ \E i, j \in Idx(calls) : calls[i].path = "listener" /\ calls[j].path = "manual"

\* C2: two events of one identity whose gate checks are less than
\* cooldown_seconds apart never both get their row written by
\* ExcelService.log (stated for the calls that returned).
C2_OnePerWindow ==
    \A i, j \in Idx(calls) :
        (i < j /\ calls[i].ok /\ calls[j].ok /\ calls[i].code = calls[j].code)
            => (calls[j].gate - calls[i].gate >= CooldownSeconds
                \/ calls[i].gate - calls[j].gate >= CooldownSeconds)

\* C3: once both handlers have returned, every row of the saved file has its
\* cooldown entry and its recent-cache entry: the accept effects go together.
RowCached(row) ==
    \E k \in Idx(recent) :
        /\ recent[k].employee_code = row.employee_code
        /\ recent[k].date = row.date
        /\ recent[k].time = row.time

C3_AllOrNone ==
    (lpc = "idle" /\ mpc = "idle")
        => \A i \in Idx(file) :
              /\ file[i].employee_code \in DOMAIN cooldown
              /\ RowCached(file[i])

\* C4: a log call that raised leaves the cooldown map as it was: neither the
\* step in which log raises nor the except clause after it changes an entry,
\* on either path; every entry of the map was set after a log call for that
\* identity returned, so an identity whose appends all failed is not on
\* cooldown.
C4_FailedLogLeavesCooldown ==
    /\ [](\A c \in DOMAIN cooldown :
            \E j \in Idx(calls) :
                calls[j].ok /\ calls[j].code = c /\ calls[j].at <= cooldown[c])
    /\ [][(lpc = "log" /\ lpc' = "except") => cooldown' = cooldown]_vars
    /\ [][(lpc = "except" /\ lpc' = "idle") => cooldown' = cooldown]_vars
    /\ [][(mpc = "log" /\ mpc' = "idle") => cooldown' = cooldown]_vars

\* a retry inside the window of the failed append passed the gate and was
\* appended
C4_Witness ==
    \E i, j \in Idx(calls) :
        /\ i < j
        /\ ~calls[i].ok /\ calls[i].path = "listener"
        /\ calls[j].ok /\ calls[j].code = calls[i].code
        /\ calls[j].gate - calls[i].at < CooldownSeconds
        /\ \A k \in 1..(j - 1) : ~calls[k].ok

\* C5: the row of a log call that raised while saving is neither in the
\* saved file nor in get_all_records(), also not after later appends.
C5_FailedNeverRecorded ==
    \A i \in Idx(calls) :
        ~calls[i].ok
            => /\ \A k \in Idx(file) : file[k].sr_no # i
               /\ \A k \in Idx(get_all_records(ws)) : get_all_records(ws)[k].sr_no # i

\* C6: when _on_message has returned, exactly one outcome has been published
\* for the message.
C6_ExactlyOneOutcome ==
    (lpc = "idle" /\ lcount > 0) => Len(published) = 1

\* C9: a listener message whose only candidate is on cooldown after an
\* earlier listener message adds no row, leaves the rows written before
\* unchanged, and has an outcome published for it.
C9_SuppressionPublished ==
    [][(/\ lpc = "gate"
        /\ mcount = 0
        /\ Len(lmatches) = 1
        /\ is_on_cooldown(cooldown, lmatches[lidx].employee_code, now)
        /\ lpc' = "idle")
          => (ws' = ws /\ file' = file /\ published' # << >>)]_vars

\* C10: a decode, matcher or sink failure never leaves _on_message: the
\* except clause publishes an outcome with status "error" for it and the
\* handler returns to wait for the next message, with no exception pending.
C10_ErrorsContained ==
    /\ [](lpc = "idle" => lerr = None)
    /\ [](lpc = "except" => lerr \in {"decode", "matcher", "sink"})
    /\ [][(lpc = "except" /\ lpc' # "except")
            => (/\ lpc' = "idle"
                /\ published' = Append(published, ErrorOutcome(lerr)))]_vars

\* the message after a failed one is accepted and published
C10_Witness ==
    /\ lpc = "idle"
    /\ lcount = 2
    /\ Len(calls) = 2
    /\ ~calls[1].ok /\ calls[1].path = "listener"
    /\ calls[2].ok /\ calls[2].path = "listener"
    /\ Len(published) = 1
    /\ published[1].status = "verified"

\* C7 (SpecSink): after N log calls that all returned, get_all_records()
\* has N records, in call order, record i with the employee_code,
\* employee_name and status of call i and the date and time of that call.
C7_ReadBack ==
    (\A i \in Idx(calls) : calls[i].ok)
        => /\ Len(get_all_records(ws)) = Len(calls)
           /\ \A i \in Idx(calls) :
                /\ i \in Idx(get_all_records(ws))
                /\ get_all_records(ws)[i].employee_code = calls[i].code
                /\ get_all_records(ws)[i].employee_name = calls[i].name
                /\ get_all_records(ws)[i].status = calls[i].status
                /\ get_all_records(ws)[i].date = DateStr(calls[i].at)
                /\ get_all_records(ws)[i].time = TimeStr(calls[i].at)

\* C8 (SpecCache): the recent cache never holds more than 100 entries; it
\* holds the last min(pushes, 100) pushed entries, oldest first.
Min(a, b) == IF a <= b THEN a ELSE b

C8_RecentBounded ==
    /\ Len(recent) <= RecentCap
    /\ Len(recent) = Min(pushes, RecentCap)
    /\ \A k \in Idx(recent) :
          recent[k].time = TimeStr(StartTime + (pushes - Len(recent)) + k)

\* after 101 pushes the first-pushed entry is gone and the last 100 remain
C8_Witness ==
    /\ pushes = RecentCap + 1
    /\ Len(recent) = RecentCap
    /\ recent[1].time = TimeStr(StartTime + 2)
    /\ recent[RecentCap].time = TimeStr(StartTime + RecentCap + 1)

\* C11 (SpecSink): every log call that returned has its row in the saved
\* file, and a new ExcelService built on that file returns the row from
\* get_all_records().
C11_Durable ==
    \A i \in Idx(calls) :
        calls[i].ok
            => \E k \in Idx(get_all_records(InitWorkbook(file))) :
                  LET rec == get_all_records(InitWorkbook(file))[k]
                  IN  /\ rec.sr_no = calls[i].sr
                      /\ rec.employee_code = calls[i].code
                      /\ rec.employee_name = calls[i].name
                      /\ rec.date = DateStr(calls[i].at)
                      /\ rec.time = TimeStr(calls[i].at)
                      /\ rec.status = calls[i].status

\* C12 (SpecSink): no step removes or changes a row of the saved file; a
\* new ExcelService on the existing file starts from exactly the saved rows;
\* every log call keeps the rows of the worksheet and writes its row right
\* after the last one, with Sr. No. the number of data rows plus 1.
C12_ExistingRowsKept ==
    /\ [][\A i \in Idx(file) : i \in Idx(file') /\ file'[i] = file[i]]_vars
    /\ [][(calls' = calls /\ ws' # ws) => (ws' = file /\ file' = file)]_vars
    /\ [][(calls' # calls)
            => (/\ Len(ws') = Len(ws) + 1
                /\ \A i \in Idx(ws) : ws'[i] = ws[i]
                /\ ws'[Len(ws) + 1].sr_no = Len(ws) + 1
                /\ ws'[Len(ws) + 1].employee_code = calls'[Len(calls')].code)]_vars

\* a restart dropped the unsaved row 2; the next call wrote row 2 of the file
\* after the existing row 1
C12_Witness ==
    /\ Len(calls) = 3
    /\ calls[1].ok /\ ~calls[2].ok /\ calls[3].ok
    /\ calls[3].sr = 2
    /\ Len(file) = 2
    /\ file[1].sr_no = 1 /\ file[1].employee_code = calls[1].code

\* C13: no verify call, of the listener or of the verify-frame endpoint,
\* reads the directory while load_encodings refills it: the directory a
\* call matches against never holds some but not all of the fetched rows.
C13_CompleteDirectory ==
    [][(lcount' # lcount \/ mcount' # mcount)
         => Len(employees) \in {0, Len(DbRows)}]_vars

\* C14 (SpecConn): is_connected is true exactly when the most recent
\* connection callback was a connect with rc = 0; a disconnect callback
\* leaves it false, and a connect callback with rc # 0 finds it false and
\* leaves it false.
is_connected == connected

C18_SnapshotWithoutDb ==
    (app # "starting" /\ app_db = None)
        => /\ app = "running"
           /\ health_check(app_db, employees, is_connected,
                           last_detection).employees_loaded = 0

\* C20 (SpecConn): as long as stop() has not been called the listener
\* thread has not left start(): it is connected, or waiting for a CONNACK,
\* or about to make another connection attempt.
C20_KeepsTrying ==
    tpc = "ended" => stopped

\* C15: a message that decodes to an image and arrives while the directory
\* is empty is answered at once: verify does not raise, the handler returns
\* with the single outcome "no_match" published, and the worksheet, the
\* saved file, the cooldown map and the recent cache are as before.
C15_EmptyDirectoryNoMatch ==
    [][(/\ lcount' = lcount + 1
        /\ employees = << >>
        /\ ~(lpc' = "except" /\ lerr' = "decode"))
          => (/\ lpc' = "idle"
              /\ lerr' = None
              /\ published' = << NoMatchOutcome >>
              /\ ws' = ws /\ file' = file
              /\ cooldown' = cooldown
              /\ recent' = recent /\ last_detection' = last_detection)]_vars

\* the first message, handled before any load_encodings, got "no_match"
C15_Witness ==
    /\ lcount = 1 /\ mcount = 0
    /\ employees = << >> /\ reloadIdx = 0
    /\ lpc = "idle"
    /\ published = << NoMatchOutcome >>
    /\ ws = << >> /\ recent = << >> /\ DOMAIN cooldown = {}

\* C16 (SpecVerify): verify returns one candidate for every face whose
\* least distance to the enrolled encodings is at most the tolerance, in
\* face order, the candidate being an identity at that least distance with
\* confidence 1 - distance; a face whose least distance is greater gets
\* none.  With nothing enrolled there is no candidate.
MinDist(codes, face) ==
    CHOOSE d \in { face[codes[i]] : i \in 1..Len(codes) } :
        \A j \in 1..Len(codes) : d <= face[codes[j]]

C16_BoundaryAccepted ==
    vpc = "returned" =>
    IF Len(vdir) = 0 THEN vout = << >>
    ELSE LET codes == [i \in 1..Len(vdir) |-> vdir[i].code]
             WithinTolerance(k) == MinDist(codes, vfaces[k]) <= Tolerance
             accepted == SelectSeq([k \in 1..Len(vfaces) |-> k], WithinTolerance)
         IN  /\ Len(vout) = Len(accepted)
             /\ \A j \in 1..Len(accepted) :
                   /\ \E i \in 1..Len(codes) : vout[j].employee_code = codes[i]
                   /\ vfaces[accepted[j]][vout[j].employee_code]
                        = MinDist(codes, vfaces[accepted[j]])
                   /\ vout[j].confidence
                        = (10 - MinDist(codes, vfaces[accepted[j]])) * 10

\* of two faces, the one exactly at the tolerance is a candidate and the one
\* just above it is not
C16_Witness ==
    /\ vpc = "returned"
    /\ Len(vdir) = 2 /\ Len(vfaces) = 2
    /\ vfaces[1]["E1"] = Tolerance + 1 /\ vfaces[1]["E2"] = Tolerance
    /\ vfaces[2]["E1"] = Tolerance + 1 /\ vfaces[2]["E2"] = Tolerance + 1
    /\ vout = << [employee_code |-> "E2", employee_name |-> "Bob",
                  confidence |-> 50] >>

\* C17: the first message, a JSON document {employee_code: "E1",
\* employee_name: "Ann", present: true} arriving on an empty log, is not
\* decoded as an image: when its handler returns, the log holds the one row
\* (1, "E1", "Ann", date, time, "Present") and an outcome with status
\* "logged" and the same code, name, date and time has been published.
C17_PreResolvedLogged ==
    [][(/\ lpayload = "json"
        /\ lcount = 1 /\ mcount = 0
        /\ lpc # "idle" /\ lpc' = "idle")
          => (/\ Len(ws') = 1
              /\ ws'[1].sr_no = 1
              /\ ws'[1].employee_code = "E1"
              /\ ws'[1].employee_name = "Ann"
              /\ ws'[1].status = "Present"
              /\ \E k \in Idx(published') :
                    /\ published'[k].status = "logged"
                    /\ published'[k].employee_code = "E1"
                    /\ published'[k].employee_name = "Ann"
                    /\ published'[k].date = ws'[1].date
                    /\ published'[k].time = ws'[1].time)]_vars

\* C19: while candidates of a capture remain to be handled, no step of the
\* handler drops them: whatever happens to one candidate (suppressed by the
\* cooldown gate, or its append raising), the handler goes on to the next
\* candidate of the same capture, on the listener and on the endpoint.
C19_CandidatesIndependent ==
    /\ [][(lidx >= 1 /\ lidx < Len(lmatches)) => lmatches' = lmatches]_vars
    /\ [][(midx >= 1 /\ midx < Len(mmatches)) => mmatches' = mmatches]_vars

\* C21 (SpecConn): between callbacks the listener is never connected
\* without its subscription to topic_frame: every connect callback with
\* rc = 0, the first and each one after a disconnect, sets the flag and
\* subscribes in the same callback, and a connect callback with rc # 0
\* subscribes to nothing.
C21_SubscribedWhenConnected ==
    /\ [](connected => subscribed)
    /\ [][(callbacks' # callbacks
            /\ callbacks'[Len(callbacks')] = [kind |-> "connect", rc |-> 0])
            => (~subscribed /\ subscribed' /\ connected')]_vars
    /\ [][(callbacks' # callbacks
            /\ callbacks'[Len(callbacks')].kind = "connect"
            /\ callbacks'[Len(callbacks')].rc # 0)
            => (~subscribed /\ ~subscribed')]_vars

\* subscribed again by the reconnection after a lost connection
C21_Witness ==
    /\ connected /\ subscribed
    /\ callbacks = << [kind |-> "connect", rc |-> 0],
                      [kind |-> "disconnect", rc |-> 0],
                      [kind |-> "connect", rc |-> 0] >>

\* C22: once both handlers have returned, the last_detection of the status
\* snapshot is the date and time of the most recent log call that returned,
\* whichever path made it, and it is None only when no call has returned.
C22_LastDetectionIsLastRow ==
    (lpc = "idle" /\ mpc = "idle")
        => LET oks == { i \in Idx(calls) : calls[i].ok }
               last == CHOOSE i \in oks : \A j \in oks : j <= i
           IN  IF oks = {}
               THEN pushes = 0
                    /\ health_check("db", employees, is_connected,
                                    last_detection).last_detection = None
               ELSE pushes > 0
                    /\ health_check("db", employees, is_connected,
                                    last_detection).last_detection
                         = << DateStr(calls[last].at), TimeStr(calls[last].at) >>

\* C24: the cooldown map changes only in the set_cooldown step that follows
\* a log call that returned, and then only in the entry of the identity
\* just accepted, which gets the current time; so a detection that is
\* suppressed, unmatched, undecodable or whose append failed changes no
\* entry.  A candidate whose entry is cooldown_seconds old or older, or who
\* has no entry, passes the gate, on both paths.
C24_CooldownOnlyOnAccept ==
    /\ [][cooldown' # cooldown
            => \/ /\ lpc = "setcd"
                  /\ \E j \in Idx(calls) :
                        /\ calls[j].ok /\ calls[j].path = "listener"
                        /\ calls[j].code = lmatches[lidx].employee_code
                        /\ calls[j].gate = lgate
                  /\ cooldown' = (lmatches[lidx].employee_code :> now) @@ cooldown
               \/ /\ mpc = "setcd"
                  /\ \E j \in Idx(calls) :
                        /\ calls[j].ok /\ calls[j].path = "manual"
                        /\ calls[j].code = mmatches[midx].employee_code
                        /\ calls[j].gate = mgate
                  /\ cooldown' = (mmatches[midx].employee_code :> now) @@ cooldown]_vars
    /\ [][(/\ lpc = "gate" /\ lpc' # "gate"
            /\ \/ lmatches[lidx].employee_code \notin DOMAIN cooldown
               \/ now - cooldown[lmatches[lidx].employee_code] >= CooldownSeconds)
            => lpc' = "log"]_vars
    /\ [][(/\ mpc = "gate" /\ mpc' # "gate"
            /\ \/ mmatches[midx].employee_code \notin DOMAIN cooldown
               \/ now - cooldown[mmatches[midx].employee_code] >= CooldownSeconds)
            => mpc' = "log"]_vars

\* the second message was suppressed 15 s after the first was accepted (it
\* returned with nothing published and nothing logged) and the entry still
\* holds the time of the first
C24_Witness ==
    /\ lpc = "idle" /\ lcount = 2 /\ mcount = 0
    /\ published = << >>
    /\ Len(calls) = 1 /\ calls[1].ok
    /\ now = StartTime + TickSeconds
    /\ cooldown = (calls[1].code :> StartTime)

\* C25: the entries of the recent cache are rows of the saved file, in file
\* order: there is a strictly increasing assignment of cache entries to rows
\* with the same employee_code, employee_name, date and time.
C25_CacheWithinLog ==
    \E f \in [Idx(recent) -> Idx(file)] :
        /\ \A k \in Idx(recent) :
              /\ file[f[k]].employee_code = recent[k].employee_code
              /\ file[f[k]].employee_name = recent[k].employee_name
              /\ file[f[k]].date = recent[k].date
              /\ file[f[k]].time = recent[k].time
        /\ \A j, k \in Idx(recent) : j < k => f[j] < f[k]

\* two entries of one capture, with a row of the endpoint between their rows
C25_Witness ==
    /\ Len(recent) = 2
    /\ Len(file) = 3
    /\ \A i \in Idx(calls) : calls[i].ok
    /\ calls[1].path = "listener"
    /\ calls[2].path = "manual"
    /\ calls[3].path = "listener"

\* C23 (SpecLock): log and get_all_records never run their bodies at the
\* same time and the lock is held exactly while one of them is inside its
\* body, so it is free after every return and after a save that raised; no
\* read has met a row lacking cells; and the records a read returned
\* include the row of every log call that had returned before the read
\* began.
C23_ReadsSeeCompletedLogs ==
    /\ (lock = "log") = (wpc \in {"cells", "lastcells", "save"})
    /\ (lock = "read") = (rpc = "reading")
    /\ ~rpartial
    /\ (rpc = "idle" /\ rseen > 0)
          => \A i \in 1..rseen :
                calls[i].ok
                    => \E k \in Idx(rresult) :
                          /\ rresult[k].sr_no = calls[i].sr
                          /\ rresult[k].employee_code = calls[i].code
                          /\ rresult[k].employee_name = calls[i].name

====
